---- MODULE Spec2Model ----
(***************************************************************************)
(* A model of video2audio-rs: the batch conversion engine of               *)
(* src/src/file_processor.rs (FileProcessor::batch_convert and the         *)
(* functions it calls), run by a rayon pool of `jobs` worker threads.      *)
(*                                                                         *)
(* One call of batch_convert is modelled.  The caller's inputs (the file   *)
(* list, the pool size, whether ffmpeg can be launched) are chosen in      *)
(* Init.  Every worker runs the closure of files.par_iter().for_each for   *)
(* one item at a time; the three Mutex<usize> counters are modelled with   *)
(* their lock holders, so that the interleavings of the workers between    *)
(* lock acquisitions are those of the program.                             *)
(*                                                                         *)
(* Assumptions: the caller's progress callback returns normally (it does   *)
(* not panic, so no Mutex is ever poisoned), and the environment (the      *)
(* files' existence, ffmpeg's presence) does not change during the batch.  *)
(***************************************************************************)
EXTENDS Naturals, Sequences, FiniteSets

\* Bounds of the model.
MaxFiles == 3
MaxJobs == 2
\* The exit codes a child process is given: 0..MaxExitCode.
MaxExitCode == 2
\* The entries below the root of a directory tree: at most MaxEntries.
MaxEntries == 3
\* The calls of a function made one after the other: at most MaxCalls.
MaxCalls == 2
\* The calls of add_recent_source_dir on one list: at most MaxAdds.
MaxAdds == 3

\* Option::None (no file stem, no lock holder, no current item).
None == 0

(***************************************************************************)
(* The paths a file list is drawn from, by the attributes the code reads   *)
(* of them: Path::exists and Path::file_stem (stem = None: no file name,   *)
(* as for "/" or a path ending in "..").  Whether a path is valid UTF-8    *)
(* (Path::to_str) is read once per item and is drawn where it is read.     *)
(***************************************************************************)
\* path: the text of the path (Path::to_str); stem: an index into Stems.
MissingFile == [exists |-> FALSE, stem |-> 1, path |-> <<"/v/gone/clip.mp4">>]
RootPath    == [exists |-> TRUE,  stem |-> None, path |-> <<"/">>]
GoodFile    == [exists |-> TRUE,  stem |-> 1, path |-> <<"/v/clip.mp4">>]

Paths == {MissingFile, RootPath, GoodFile}

\* The file lists of a batch.  batch_convert treats the elements alike and
\* par_iter hands them out in any order, so a list stands for all its
\* permutations: the missing files come first, the files without a stem next.
FileLists ==
    LET rank(p) == IF p = MissingFile THEN 1 ELSE IF p = RootPath THEN 2 ELSE 3
    IN  {l \in UNION {[1..n -> Paths] : n \in 0..MaxFiles} :
            \A k \in 1..(Len(l) - 1) : rank(l[k]) <= rank(l[k + 1])}

\* The output directories and formats of a call, and what the processes
\* it starts may do.
OutputDirs == { <<"/v/audio_exports">>, <<"/out">>, <<"exports">> }
ExitCodes == 0..MaxExitCode
StdErrs == { << >>, <<"Invalid data found when processing input">> }

Counters == {"progress", "success", "failure"}

VARIABLES
    files,            \* files: &[PathBuf], the argument of batch_convert
    jobs,             \* number of threads of the rayon pool
    ffmpegLaunchable, \* whether Command::new("ffmpeg") can be spawned
    phase,            \* "called" | "running" | "returned": position of batch_convert
    total_files,
    progress_counter,
    success_counter,
    failure_counter,
    holder,           \* holder[c]: the worker holding Mutex c, or None
    itemState,        \* per item: "Pending" | "Running" | "Succeeded" | "Failed"
    dispatched,       \* per item: how many times the closure was started on it
    log,              \* per item: the checks convert_single_file performed, in order
    probes,           \* number of `ffmpeg -version` probes attempted
    pc,               \* per worker: position in the closure
    cur,              \* per worker: index of the item it is processing
    res,              \* per worker: the Result of convert_single_file
    delivered,        \* the calls the progress sink received, in order
    inSink,           \* the workers currently executing progress_callback
    result,           \* the returned (success_count, failure_count)
    op,               \* the function called on its own ("batch_convert" in Spec)
    arg,              \* the arguments and environment of that call
    ret,              \* its return value; ret.done is FALSE before it returns
    run,              \* main: its position (run.pc) and its local variables
    disk              \* main: the configuration files and the output files

\* The state of one batch_convert call.
batchVars == <<files, jobs, ffmpegLaunchable, phase, total_files, progress_counter,
               success_counter, failure_counter, holder, itemState, dispatched, log,
               probes, pc, cur, res, delivered, inSink, result>>

\* The state of one call of a function of the library outside a batch.
callVars == <<op, arg, ret>>

\* The state of one run of main.
mainVars == <<run, disk>>

vars == <<batchVars, callVars, mainVars>>

Workers == 1..jobs
Items == 1..Len(files)

\* The value of ret while the call has not returned.
Pending == [done |-> FALSE]

\* The variables of main in a state in which main is not running.
NoMain ==
    /\ run = [pc |-> "none"]
    /\ disk = << >>

Init ==
    /\ files \in FileLists
    /\ jobs \in 1..MaxJobs
    /\ ffmpegLaunchable \in BOOLEAN
    /\ phase = "called"
    /\ total_files = 0
    /\ progress_counter = 0
    /\ success_counter = 0
    /\ failure_counter = 0
    /\ holder = [c \in Counters |-> None]
    /\ itemState = [i \in Items |-> "Pending"]
    /\ dispatched = [i \in Items |-> 0]
    /\ log = [i \in Items |-> << >>]
    /\ probes = 0
    /\ pc = [w \in Workers |-> "idle"]
    /\ cur = [w \in Workers |-> None]
    /\ res = [w \in Workers |-> "none"]
    /\ delivered = << >>
    /\ inSink = {}
    /\ result = << >>
    /\ op = "batch_convert"
    /\ arg = << >>
    /\ ret = Pending
    /\ NoMain

(***************************************************************************)
(* Strings.  A string is the sequence of its characters; a text the code   *)
(* only passes on (a command-line flag, a directory) is kept in one piece. *)
(***************************************************************************)
UpperCase == <<"A", "B", "C", "D", "E", "F", "G", "H", "I", "J", "K", "L", "M",
               "N", "O", "P", "Q", "R", "S", "T", "U", "V", "W", "X", "Y", "Z">>
LowerCase == <<"a", "b", "c", "d", "e", "f", "g", "h", "i", "j", "k", "l", "m",
               "n", "o", "p", "q", "r", "s", "t", "u", "v", "w", "x", "y", "z">>

\* char::to_lowercase on the characters used here.
LowerChar(c) ==
    IF \E k \in 1..Len(UpperCase) : UpperCase[k] = c
    THEN LowerCase[CHOOSE k \in 1..Len(UpperCase) : UpperCase[k] = c]
    ELSE c

\* str::to_lowercase
to_lowercase(str) == [k \in 1..Len(str) |-> LowerChar(str[k])]

\* char::is_whitespace
WhiteSpace == {" ", "\t", "\n"}

\* str::trim: the string without its leading and trailing whitespace.
RECURSIVE trim_start(_)
trim_start(str) ==
    IF str # << >> /\ Head(str) \in WhiteSpace THEN trim_start(Tail(str)) ELSE str

RECURSIVE trim_end(_)
trim_end(str) ==
    IF str # << >> /\ str[Len(str)] \in WhiteSpace
    THEN trim_end(SubSeq(str, 1, Len(str) - 1))
    ELSE str

trim(str) == trim_end(trim_start(str))

(***************************************************************************)
(* audio_format.rs                                                         *)
(***************************************************************************)

\* enum AudioFormat
AudioFormat == {"Mp3", "AacCopy", "Opus"}

\* AudioFormat::all_formats
all_formats_Reordered == <<"Mp3", "Opus", "AacCopy">>

all_formats == <<"Mp3", "AacCopy", "Opus">>

\* AudioFormat::extension
extension_WebmContainer(format) ==
    CASE format = "Mp3" -> <<"m", "p", "3">>
      [] format = "AacCopy" -> <<"a", "a", "c">>
      [] format = "Opus" -> <<"w", "e", "b", "m">>

extension(format) ==
    CASE format = "Mp3" -> <<"m", "p", "3">>
      [] format = "AacCopy" -> <<"a", "a", "c">>
      [] format = "Opus" -> <<"o", "p", "u", "s">>

\* AudioFormat::ffmpeg_args
ffmpeg_args(format) ==
    CASE format = "Mp3" -> << <<"-q:a">>, <<"0">> >>
      [] format = "AacCopy" -> << <<"-c:a">>, <<"copy">> >>
      [] format = "Opus" -> << <<"-c:a">>, <<"libopus">>, <<"-b:a">>, <<"192k">> >>

\* from_user_input, lines 119-121: the patterns of the match and their formats.
Selectors ==
    << [text |-> <<"1">>, format |-> "Mp3"],
       [text |-> <<"m", "p", "3">>, format |-> "Mp3"],
       [text |-> <<"2">>, format |-> "AacCopy"],
       [text |-> <<"a", "a", "c">>, format |-> "AacCopy"],
       [text |-> <<"a", "a", "c", "-", "c", "o", "p", "y">>, format |-> "AacCopy"],
       [text |-> <<"3">>, format |-> "Opus"],
       [text |-> <<"o", "p", "u", "s">>, format |-> "Opus"] >>

\* AudioFormat::from_user_input: the input is trimmed and lower-cased, then
\* matched; err "none" is Ok(val), else val is "none".  The message of
\* InvalidInput is not modelled.
from_user_input_NoTrim(input) ==
    LET lowered == to_lowercase(input)
        hits == {k \in 1..Len(Selectors) : Selectors[k].text = lowered}
    IN  IF hits # {}
        THEN [done |-> TRUE, err |-> "none", val |-> Selectors[CHOOSE k \in hits : TRUE].format]
        ELSE [done |-> TRUE, err |-> "InvalidInput", val |-> "none"]

from_user_input(input) ==
    LET lowered == to_lowercase(trim(input))
        hits == {k \in 1..Len(Selectors) : Selectors[k].text = lowered}
    IN  IF hits # {}
        THEN [done |-> TRUE, err |-> "none", val |-> Selectors[CHOOSE k \in hits : TRUE].format]
        ELSE [done |-> TRUE, err |-> "InvalidInput", val |-> "none"]

(***************************************************************************)
(* Pure functions of file_processor.rs.                                    *)
(***************************************************************************)

\* The file stems of the paths (Path::file_stem), by index.
Stems == << <<"c", "l", "i", "p">>, <<"a", ".", "b">> >>

\* PathBuf::join
join(dir, name) == dir \o <<"/">> \o name

\* build_output_path: Err(InvalidPath) without a file stem, else
\* output_dir.join(format!("{}.{}", file_stem, format.extension())).
build_output_path_SourceNameKept(source_file, output_dir, format) ==
    IF source_file.stem = None
    THEN [ok |-> FALSE, err |-> "InvalidPath", path |-> << >>]
    ELSE [ok |-> TRUE, err |-> "none",
          path |-> join(output_dir, Stems[source_file.stem] \o <<".">> \o <<"m", "p", "4">>
                                    \o <<".">> \o extension(format))]

build_output_path(source_file, output_dir, format) ==
    IF source_file.stem = None
    THEN [ok |-> FALSE, err |-> "InvalidPath", path |-> << >>]
    ELSE [ok |-> TRUE, err |-> "none",
          path |-> join(output_dir, Stems[source_file.stem] \o <<".">> \o extension(format))]

\* The io::Result<ExitStatus> of Command::status for `ffmpeg -version`.
CommandStatus(launchable, code) == [launched |-> launchable, code |-> code]

\* check_ffmpeg_availability: Err(MissingDependency) iff the command cannot
\* be spawned (.status() returns Err); the exit status is not looked at.
check_ffmpeg_availability_StatusChecked(status) ==
    IF status.launched /\ status.code = 0 THEN "Ok" ELSE "MissingDependency"

check_ffmpeg_availability(status) ==
    IF status.launched THEN "Ok" ELSE "MissingDependency"

(***************************************************************************)
(* convert_single_file up to the spawn of the conversion process:          *)
(* the checks in the order of the code.  Yields the checks performed, the  *)
(* error that stopped them ("none": the conversion process is to be        *)
(* spawned) and the number of probes made.  status: what Command::status   *)
(* of the probe returns; utf8: whether to_str succeeds on the source and   *)
(* the output path (lines 287-295).                                        *)
(***************************************************************************)
PreSpawn_ProbeFirst(source_file, output_dir, format, status, utf8) ==
    IF check_ffmpeg_availability(status) # "Ok"
    THEN [err |-> check_ffmpeg_availability(status), log |-> <<"probe">>, probes |-> 1]
    ELSE IF ~source_file.exists
    THEN [err |-> "InvalidPath", log |-> <<"probe", "exists">>, probes |-> 1]
    ELSE IF ~build_output_path(source_file, output_dir, format).ok
    THEN [err |-> build_output_path(source_file, output_dir, format).err,
          log |-> <<"probe", "exists", "resolve">>, probes |-> 1]
    ELSE IF ~utf8
    THEN [err |-> "InvalidPath", log |-> <<"probe", "exists", "resolve">>, probes |-> 1]
    ELSE [err |-> "none", log |-> <<"probe", "exists", "resolve", "invoke">>, probes |-> 1]

PreSpawn(source_file, output_dir, format, status, utf8) ==
    IF ~source_file.exists
    THEN [err |-> "InvalidPath", log |-> <<"exists">>, probes |-> 0]
    ELSE IF ~build_output_path(source_file, output_dir, format).ok
    THEN [err |-> build_output_path(source_file, output_dir, format).err,
          log |-> <<"exists", "resolve">>, probes |-> 0]
    ELSE IF check_ffmpeg_availability(status) # "Ok"
    THEN [err |-> check_ffmpeg_availability(status),
          log |-> <<"exists", "resolve", "probe">>, probes |-> 1]
    ELSE IF ~utf8
    THEN [err |-> "InvalidPath", log |-> <<"exists", "resolve", "probe">>, probes |-> 1]
    ELSE [err |-> "none", log |-> <<"exists", "resolve", "probe", "invoke">>, probes |-> 1]

\* execute_ffmpeg_conversion, lines 298-308: the arguments of the ffmpeg command.
ConversionArgs_NoOverwrite(source_str, output_str, format) ==
    << <<"-n">>, <<"-hide_banner">>, <<"-loglevel">>, <<"error">>,
       <<"-i">>, source_str, <<"-vn">> >>
    \o ffmpeg_args(format) \o <<output_str>>

ConversionArgs_OutputBeforeFormat(source_str, output_str, format) ==
    << <<"-y">>, <<"-hide_banner">>, <<"-loglevel">>, <<"error">>,
       <<"-i">>, source_str, <<"-vn">> >>
    \o <<output_str>> \o ffmpeg_args(format)

ConversionArgs(source_str, output_str, format) ==
    << <<"-y">>, <<"-hide_banner">>, <<"-loglevel">>, <<"error">>,
       <<"-i">>, source_str, <<"-vn">> >>
    \o ffmpeg_args(format) \o <<output_str>>

\* Line 321: the literal the message of a failed conversion starts with
\* (in the source it is written in Chinese: "conversion failed: ").
FailedPrefix == "conversion failed: "

\* execute_ffmpeg_conversion, lines 318-325: the Result for the Output of the
\* conversion process (its exit code and what it wrote to stderr).
ConversionResult_StatusIgnored(code, stderr) == [err |-> "none", msg |-> << >>]

ConversionResult(code, stderr) ==
    IF code # 0
    THEN [err |-> "FfmpegError", msg |-> <<FailedPrefix>> \o stderr]
    ELSE [err |-> "none", msg |-> << >>]

(***************************************************************************)
(* batch_convert                                                           *)
(***************************************************************************)

\* Lines 163-166: total_files and the three Arc<Mutex<usize>> counters.
BatchConvertEnter_ProbeFirst ==
    /\ phase = "called"
    /\ phase' = "running"
    /\ total_files' = Len(files)
    /\ progress_counter' = 0
    /\ success_counter' = 0
    /\ failure_counter' = 0
    /\ probes' = probes + 1
    /\ UNCHANGED <<callVars, mainVars>>
    /\ UNCHANGED <<files, jobs, ffmpegLaunchable, holder, itemState, dispatched,
                   log, pc, cur, res, delivered, inSink, result>>

BatchConvertEnter ==
    /\ phase = "called"
    /\ phase' = "running"
    /\ total_files' = Len(files)
    /\ progress_counter' = 0
    /\ success_counter' = 0
    /\ failure_counter' = 0
    /\ UNCHANGED <<callVars, mainVars>>
    /\ UNCHANGED <<files, jobs, ffmpegLaunchable, holder, itemState, dispatched,
                   log, probes, pc, cur, res, delivered, inSink, result>>

\* A pool thread runs one closure call to its end before it takes another item.
WorkerFree_SpawnAndForget(w) == pc[w] \in {"idle", "ffmpeg"}

WorkerFree(w) == pc[w] = "idle"

\* The items par_iter may still hand out: each element of the slice once.
Dispatchable_Retry(i) == itemState[i] \in {"Pending", "Failed"}

Dispatchable(i) == itemState[i] = "Pending"

\* files.par_iter().for_each(|source_file| ...): a free worker starts the
\* closure on an item not yet handed out.
TakeItem(w, i) ==
    /\ phase = "running"
    /\ WorkerFree(w)
    /\ Dispatchable(i)
    /\ itemState' = [itemState EXCEPT ![i] = "Running"]
    /\ dispatched' = [dispatched EXCEPT ![i] = @ + 1]
    /\ cur' = [cur EXCEPT ![w] = i]
    /\ pc' = [pc EXCEPT ![w] = "convert"]
    /\ UNCHANGED <<callVars, mainVars>>
    /\ UNCHANGED <<files, jobs, ffmpegLaunchable, phase, total_files,
                   progress_counter, success_counter, failure_counter, holder,
                   log, probes, res, delivered, inSink, result>>

\* What convert_single_file may do with a file before the spawn.  The
\* output directory and the format do not change during a batch; here they
\* are drawn per item, as is what the item's probe and to_str return: of
\* all these the batch keeps only the outcome.
PreSpawnOutcomes_ProbeRemembered(source_file, launchable) ==
    IF probes > 0 /\ ~launchable /\ source_file.exists /\ source_file.stem # None
    THEN {[err |-> "MissingDependency", log |-> <<"exists", "resolve">>, probes |-> 0]}
    ELSE {PreSpawn(source_file, dir, format, CommandStatus(launchable, code), utf8) :
            dir \in OutputDirs, format \in AudioFormat, code \in ExitCodes,
            utf8 \in BOOLEAN}

PreSpawnOutcomes(source_file, launchable) ==
    {PreSpawn(source_file, dir, format, CommandStatus(launchable, code), utf8) :
        dir \in OutputDirs, format \in AudioFormat, code \in ExitCodes, utf8 \in BOOLEAN}

\* convert_single_file, lines 224-234, and execute_ffmpeg_conversion up to
\* Command::output (lines 287-316): either an error is returned, or the
\* conversion process is spawned (spawned = FALSE: .output() fails, Io).
ConvertBegin(w) ==
    /\ pc[w] = "convert"
    /\ \E p \in PreSpawnOutcomes(files[cur[w]], ffmpegLaunchable), spawned \in BOOLEAN :
         LET i == cur[w]
         IN /\ log' = [log EXCEPT ![i] = @ \o p.log]
            /\ probes' = probes + p.probes
            /\ IF p.err # "none"
               THEN /\ res' = [res EXCEPT ![w] = p.err]
                    /\ itemState' = [itemState EXCEPT ![i] = "Failed"]
                    /\ pc' = [pc EXCEPT ![w] = "match"]
               ELSE IF spawned
               THEN /\ pc' = [pc EXCEPT ![w] = "ffmpeg"]
                    /\ UNCHANGED <<res, itemState>>
               ELSE /\ res' = [res EXCEPT ![w] = "Io"]
                    /\ itemState' = [itemState EXCEPT ![i] = "Failed"]
                    /\ pc' = [pc EXCEPT ![w] = "match"]
    /\ UNCHANGED <<callVars, mainVars>>
    /\ UNCHANGED <<files, jobs, ffmpegLaunchable, phase, total_files,
                   progress_counter, success_counter, failure_counter, holder,
                   dispatched, cur, delivered, inSink, result>>

\* The outcomes of the conversion process: "none" (exit code 0) or the error.
ExitOutcomes == {ConversionResult(code, stderr).err : code \in ExitCodes, stderr \in StdErrs}

\* Lines 318-325 and 239: the conversion process exits; status 0 is Ok(output_path).
FfmpegExit(w) ==
    /\ pc[w] = "ffmpeg"
    /\ \E e \in ExitOutcomes :
         /\ res' = [res EXCEPT ![w] = IF e = "none" THEN "Ok" ELSE e]
         /\ itemState' = [itemState EXCEPT
                            ![cur[w]] = IF e = "none" THEN "Succeeded" ELSE "Failed"]
    /\ pc' = [pc EXCEPT ![w] = "match"]
    /\ UNCHANGED <<callVars, mainVars>>
    /\ UNCHANGED <<files, jobs, ffmpegLaunchable, phase, total_files,
                   progress_counter, success_counter, failure_counter, holder,
                   dispatched, log, probes, cur, delivered, inSink, result>>

\* The counter the match arm of the Result locks.
Category(r) == IF r = "Ok" THEN "success" ELSE "failure"

\* Lines 172 and 176: success_counter.lock() / failure_counter.lock().
LockCategory(w) ==
    /\ pc[w] = "match"
    /\ holder[Category(res[w])] = None
    /\ holder' = [holder EXCEPT ![Category(res[w])] = w]
    /\ pc' = [pc EXCEPT ![w] = "arm"]
    /\ UNCHANGED <<callVars, mainVars>>
    /\ UNCHANGED <<files, jobs, ffmpegLaunchable, phase, total_files,
                   progress_counter, success_counter, failure_counter, itemState,
                   dispatched, log, probes, cur, res, delivered, inSink, result>>

\* Lines 173 and 177: the increment of the arm (r: the Result, s, f: the counters).
ArmCounts_OkDropped(r, s, f) == IF r = "Ok" THEN <<s, f>> ELSE <<s, f + 1>>

ArmCounts_ErrDropped(r, s, f) == IF r = "Ok" THEN <<s + 1, f>> ELSE <<s, f>>

ArmCounts(r, s, f) == IF r = "Ok" THEN <<s + 1, f>> ELSE <<s, f + 1>>

IncCategory_GuardKept(w) ==
    /\ pc[w] = "arm"
    /\ success_counter' = ArmCounts(res[w], success_counter, failure_counter)[1]
    /\ failure_counter' = ArmCounts(res[w], success_counter, failure_counter)[2]
    /\ pc' = [pc EXCEPT ![w] = "progress"]
    /\ cur' = [cur EXCEPT ![w] = None]
    /\ res' = [res EXCEPT ![w] = "none"]
    /\ UNCHANGED <<callVars, mainVars>>
    /\ UNCHANGED <<files, jobs, ffmpegLaunchable, phase, total_files, holder,
                   progress_counter, itemState, dispatched, log, probes,
                   delivered, inSink, result>>

\* Lines 173-174, 177-185: *count += 1 under the lock; the guard is dropped
\* at the end of the arm.  The Result and source_file are not used after it.
IncCategory(w) ==
    /\ pc[w] = "arm"
    /\ success_counter' = ArmCounts(res[w], success_counter, failure_counter)[1]
    /\ failure_counter' = ArmCounts(res[w], success_counter, failure_counter)[2]
    /\ holder' = [holder EXCEPT ![Category(res[w])] = None]
    /\ pc' = [pc EXCEPT ![w] = "progress"]
    /\ cur' = [cur EXCEPT ![w] = None]
    /\ res' = [res EXCEPT ![w] = "none"]
    /\ UNCHANGED <<callVars, mainVars>>
    /\ UNCHANGED <<files, jobs, ffmpegLaunchable, phase, total_files,
                   progress_counter, itemState, dispatched, log, probes,
                   delivered, inSink, result>>

\* Lines 189-191: progress_counter.lock(); once the lock is held,
\* *count += 1 and progress_callback(*count, total_files) is entered.  The
\* guard `count` lives to the end of the closure.
NotifyProgress_NoWait(w) ==
    /\ pc[w] = "progress"
    /\ holder' = [holder EXCEPT !["progress"] = w]
    /\ progress_counter' = progress_counter + 1
    /\ delivered' = Append(delivered, <<progress_counter + 1, total_files>>)
    /\ inSink' = inSink \cup {w}
    /\ pc' = [pc EXCEPT ![w] = "sink"]
    /\ UNCHANGED <<callVars, mainVars>>
    /\ UNCHANGED <<files, jobs, ffmpegLaunchable, phase, total_files,
                   success_counter, failure_counter, itemState, dispatched,
                   log, probes, cur, res, result>>

NotifyProgress_CallFirst(w) ==
    /\ pc[w] = "progress"
    /\ holder["progress"] = None
    /\ holder' = [holder EXCEPT !["progress"] = w]
    /\ progress_counter' = progress_counter + 1
    /\ delivered' = Append(delivered, <<progress_counter, total_files>>)
    /\ inSink' = inSink \cup {w}
    /\ pc' = [pc EXCEPT ![w] = "sink"]
    /\ UNCHANGED <<callVars, mainVars>>
    /\ UNCHANGED <<files, jobs, ffmpegLaunchable, phase, total_files,
                   success_counter, failure_counter, itemState, dispatched,
                   log, probes, cur, res, result>>

NotifyProgress(w) ==
    /\ pc[w] = "progress"
    /\ holder["progress"] = None
    /\ holder' = [holder EXCEPT !["progress"] = w]
    /\ progress_counter' = progress_counter + 1
    /\ delivered' = Append(delivered, <<progress_counter + 1, total_files>>)
    /\ inSink' = inSink \cup {w}
    /\ pc' = [pc EXCEPT ![w] = "sink"]
    /\ UNCHANGED <<callVars, mainVars>>
    /\ UNCHANGED <<files, jobs, ffmpegLaunchable, phase, total_files,
                   success_counter, failure_counter, itemState, dispatched,
                   log, probes, cur, res, result>>

\* Lines 191-192: the callback returns, the closure ends and drops `count`.
SinkReturn(w) ==
    /\ pc[w] = "sink"
    /\ inSink' = inSink \ {w}
    /\ holder' = [holder EXCEPT !["progress"] = IF @ = w THEN None ELSE @]
    /\ pc' = [pc EXCEPT ![w] = "idle"]
    /\ UNCHANGED <<callVars, mainVars>>
    /\ UNCHANGED <<files, jobs, ffmpegLaunchable, phase, total_files,
                   progress_counter, success_counter, failure_counter, itemState,
                   dispatched, log, probes, cur, res, delivered, result>>

\* for_each returns when the closure has run to its end on every element.
BatchDone_NoJoin == \A i \in Items : itemState[i] # "Pending"

BatchDone_AbortOnFailure ==
    \/ failure_counter > 0
    \/ /\ \A i \in Items : itemState[i] # "Pending"
       /\ \A w \in Workers : pc[w] = "idle"

BatchDone ==
    /\ \A i \in Items : itemState[i] # "Pending"
    /\ \A w \in Workers : pc[w] = "idle"

\* Lines 194-197: the counters are read and returned.
BatchConvertReturn ==
    /\ phase = "running"
    /\ BatchDone
    /\ holder["success"] = None
    /\ holder["failure"] = None
    /\ result' = <<success_counter, failure_counter>>
    /\ phase' = "returned"
    /\ UNCHANGED <<callVars, mainVars>>
    /\ UNCHANGED <<files, jobs, ffmpegLaunchable, total_files, progress_counter,
                   success_counter, failure_counter, holder, itemState, dispatched,
                   log, probes, pc, cur, res, delivered, inSink>>

Next ==
    \/ BatchConvertEnter
    \/ \E w \in Workers, i \in Items : TakeItem(w, i)
    \/ \E w \in Workers : ConvertBegin(w)
    \/ \E w \in Workers : FfmpegExit(w)
    \/ \E w \in Workers : LockCategory(w)
    \/ \E w \in Workers : IncCategory(w)
    \/ \E w \in Workers : NotifyProgress(w)
    \/ \E w \in Workers : SinkReturn(w)
    \/ BatchConvertReturn

Spec == Init /\ [][Next]_vars

(***************************************************************************)
(* One call of convert_single_file outside a batch.  Its arguments and     *)
(* what the call meets in its environment (the result of the probe,        *)
(* whether the paths are UTF-8, whether the conversion process can be      *)
(* spawned, its exit code and its stderr) are chosen in the initial state. *)
(***************************************************************************)

\* The batch variables of a state in which no batch is running.
NoBatch ==
    /\ files = << >>
    /\ jobs = 1
    /\ ffmpegLaunchable = TRUE
    /\ phase = "none"
    /\ total_files = 0
    /\ progress_counter = 0
    /\ success_counter = 0
    /\ failure_counter = 0
    /\ holder = [c \in Counters |-> None]
    /\ itemState = << >>
    /\ dispatched = << >>
    /\ log = << >>
    /\ probes = 0
    /\ pc = [w \in 1..1 |-> "idle"]
    /\ cur = [w \in 1..1 |-> None]
    /\ res = [w \in 1..1 |-> "none"]
    /\ delivered = << >>
    /\ inSink = {}
    /\ result = << >>

\* What Command::status of the probe may return.
ProbeStatuses == {CommandStatus(launchable, code) : launchable \in BOOLEAN, code \in ExitCodes}

\* What a call of convert_single_file may meet.
Envs == [status : ProbeStatuses, utf8 : BOOLEAN, spawned : BOOLEAN,
         code : ExitCodes, stderr : StdErrs]

\* convert_single_file, lines 217-240, with execute_ffmpeg_conversion.  The
\* result: err ("none": Ok), val (the PathBuf of Ok), msg (the message of
\* FfmpegError; the messages of the other errors are not modelled), argv
\* (the arguments given to Command::new("ffmpeg"), << >> if it was not
\* built), log and probes as in PreSpawn.
convert_single_file(source_file, output_dir, format, env) ==
    LET pre == PreSpawn(source_file, output_dir, format, env.status, env.utf8)
        output_path == build_output_path(source_file, output_dir, format).path
        args == ConversionArgs(source_file.path, output_path, format)
        exit == ConversionResult(env.code, env.stderr)
    IN  IF pre.err # "none"
        THEN [done |-> TRUE, err |-> pre.err, val |-> << >>, msg |-> << >>,
              argv |-> << >>, log |-> pre.log, probes |-> pre.probes]
        ELSE IF ~env.spawned
        THEN [done |-> TRUE, err |-> "Io", val |-> << >>, msg |-> << >>,
              argv |-> args, log |-> pre.log, probes |-> pre.probes]
        ELSE IF exit.err # "none"
        THEN [done |-> TRUE, err |-> exit.err, val |-> << >>, msg |-> exit.msg,
              argv |-> args, log |-> pre.log, probes |-> pre.probes]
        ELSE [done |-> TRUE, err |-> "none", val |-> output_path, msg |-> << >>,
              argv |-> args, log |-> pre.log, probes |-> pre.probes]

InitConvertOne ==
    /\ NoBatch
    /\ op = "convert_single_file"
    /\ arg \in [source_file : Paths, output_dir : OutputDirs, format : AudioFormat,
                env : Envs]
    /\ ret = Pending
    /\ NoMain

ConvertSingleFile ==
    /\ op = "convert_single_file"
    /\ ~ret.done
    /\ ret' = convert_single_file(arg.source_file, arg.output_dir, arg.format, arg.env)
    /\ UNCHANGED <<op, arg>>
    /\ UNCHANGED <<batchVars, mainVars>>

NextConvertOne == ConvertSingleFile

SpecConvertOne == InitConvertOne /\ [][NextConvertOne]_vars

(***************************************************************************)
(* One call of AudioFormat::from_user_input.  The input is a word between  *)
(* two runs of white space; the three parts are chosen in the initial      *)
(* state.                                                                  *)
(***************************************************************************)

\* Words without white space at either end.
Words ==
    {<< >>,
     <<"0">>,
     <<"1">>,
     <<"2">>,
     <<"3">>,
     <<"4">>,
     <<"m", "p", "3">>,
     <<"M", "P", "3">>,
     <<"M", "p", "3">>,
     <<"a", "a", "c">>,
     <<"A", "A", "C">>,
     <<"a", "a", "c", "-", "c", "o", "p", "y">>,
     <<"A", "A", "C", "-", "C", "o", "p", "y">>,
     <<"a", "a", "c", " ", "c", "o", "p", "y">>,
     <<"o", "p", "u", "s">>,
     <<"O", "P", "U", "S">>,
     <<"O", "p", "U", "s">>,
     <<"m", "p", "4">>,
     <<"i", "n", "v", "a", "l", "i", "d">>,
     <<"1", "2">>}

\* Runs of white space.
Pads == {<< >>, <<" ">>, <<"\t">>, <<" ", "\n">>}

\* The input of the call.
Input == arg.left \o arg.word \o arg.right

InitSelect ==
    /\ NoBatch
    /\ op = "from_user_input"
    /\ arg \in [left : Pads, word : Words, right : Pads]
    /\ ret = Pending
    /\ NoMain

FromUserInput ==
    /\ op = "from_user_input"
    /\ ~ret.done
    /\ ret' = from_user_input(Input)
    /\ UNCHANGED <<op, arg>>
    /\ UNCHANGED <<batchVars, mainVars>>

NextSelect == FromUserInput

SpecSelect == InitSelect /\ [][NextSelect]_vars

(***************************************************************************)
(* One call of find_video_files.  The directory tree is the root and a     *)
(* sequence of entries below it; entry k has a parent (0: the root, else   *)
(* an earlier entry that is a directory), a file type, the extension of    *)
(* its name and, for a directory, whether it can be read.  The path of     *)
(* entry k is identified with k.                                           *)
(***************************************************************************)

\* FileProcessor::new: supported_extensions.
supported_extensions ==
    << <<"m", "p", "4">>, <<"m", "k", "v">>, <<"a", "v", "i">>, <<"m", "o", "v">>,
       <<"w", "e", "b", "m">>, <<"f", "l", "v">>, <<"w", "m", "v">>,
       <<"m", "4", "v">>, <<"3", "g", "p">>, <<"t", "s">> >>

\* Option<&OsStr> of Path::extension: a sequence of at most one string.
NoExt == << >>
Some(x) == <<x>>

\* The extensions of the names in a tree.
Exts == {NoExt, Some(<<"m", "p", "4">>), Some(<<"M", "k", "V">>), Some(<<"t", "x", "t">>)}

\* The entries of a tree by file type: regular files of every extension,
\* directories (named with or without a video extension, readable or not)
\* and symbolic links (which walkdir does not follow).
EntryKinds ==
    [kind : {"file"}, ext : Exts, readable : {TRUE}]
    \cup [kind : {"dir"}, ext : {NoExt, Some(<<"m", "p", "4">>)}, readable : BOOLEAN]
    \cup [kind : {"symlink"}, ext : {Some(<<"m", "p", "4">>)}, readable : {TRUE}]

\* The entries that may be added to tree t: below the root or a directory of t.
EntriesUnder(t) ==
    {[parent |-> q, kind |-> e.kind, ext |-> e.ext, readable |-> e.readable] :
        q \in {0} \cup {j \in 1..Len(t) : t[j].kind = "dir"}, e \in EntryKinds}

\* The root given to find_video_files: missing, a regular file, or a
\* directory that can or cannot be read.
Roots ==
    {[exists |-> FALSE, is_dir |-> FALSE, readable |-> FALSE],
     [exists |-> TRUE, is_dir |-> FALSE, readable |-> TRUE],
     [exists |-> TRUE, is_dir |-> TRUE, readable |-> TRUE],
     [exists |-> TRUE, is_dir |-> TRUE, readable |-> FALSE]}

\* walkdir::WalkDir::new(source_dir).into_iter(): the items it yields, in
\* order: Ok(entry) for the root and for every entry of a directory it
\* reads, depth first, and Err after a directory it cannot read.
RECURSIVE WalkFrom(_, _, _), WalkChildren(_, _, _, _)
WalkFrom(source_dir, tree, k) ==
    LET isDir == IF k = 0 THEN source_dir.is_dir ELSE tree[k].kind = "dir"
        readable == IF k = 0 THEN source_dir.readable ELSE tree[k].readable
    IN  <<[ok |-> TRUE, id |-> k]>>
        \o (IF ~isDir THEN << >>
            ELSE IF ~readable THEN <<[ok |-> FALSE, id |-> k]>>
            ELSE WalkChildren(source_dir, tree, k, 1))

\* The entries j, j+1, ... of directory k.
WalkChildren(source_dir, tree, k, j) ==
    IF j > Len(tree) THEN << >>
    ELSE (IF tree[j].parent = k THEN WalkFrom(source_dir, tree, j) ELSE << >>)
         \o WalkChildren(source_dir, tree, k, j + 1)

WalkDir(source_dir, tree) == WalkFrom(source_dir, tree, 0)

\* e.file_type().is_file() of the entry with path k (the root is 0).
is_file(tree, k) == k # 0 /\ tree[k].kind = "file"

\* is_supported_video_file, lines 108-113.
is_supported_video_file_CaseSensitive(path) ==
    /\ path.ext # NoExt
    /\ \E k \in 1..Len(supported_extensions) : supported_extensions[k] = path.ext[1]

is_supported_video_file(path) ==
    /\ path.ext # NoExt
    /\ \E k \in 1..Len(supported_extensions) :
          supported_extensions[k] = to_lowercase(path.ext[1])

\* Lines 77-85: filter_map keeps Ok(path) of the regular files and the errors.
filter_map(items, tree) == SelectSeq(items, LAMBDA r : ~r.ok \/ is_file(tree, r.id))

\* Lines 86-91: filter keeps the supported files and the errors.
filter(items, tree) ==
    SelectSeq(items, LAMBDA r : ~r.ok \/ is_supported_video_file(tree[r.id]))

\* Line 92: collect::<Result<Vec<PathBuf>>>: the first Err, else all the paths.
collect_SkipErrors(items) ==
    LET oks == SelectSeq(items, LAMBDA r : r.ok)
    IN  [err |-> "none", val |-> [k \in 1..Len(oks) |-> oks[k].id]]

collect(items) ==
    IF \E k \in 1..Len(items) : ~items[k].ok
    THEN [err |-> "Io", val |-> << >>]
    ELSE [err |-> "none", val |-> [k \in 1..Len(items) |-> items[k].id]]

\* The items collect takes from the walk: up to the first Err.
Consumed(items) ==
    IF \E k \in 1..Len(items) : ~items[k].ok
    THEN CHOOSE k \in 1..Len(items) : ~items[k].ok /\ \A j \in 1..(k - 1) : items[j].ok
    ELSE Len(items)

\* find_video_files, lines 62-95.  The result: err ("none": Ok), val (the
\* Vec of Ok), log (the checks of the root made) and walked (the number of
\* items taken from the walk).
find_video_files_NoDirCheck(source_dir, tree) ==
    IF ~source_dir.exists
    THEN [done |-> TRUE, err |-> "InvalidPath", val |-> << >>,
          log |-> <<"exists">>, walked |-> 0]
    ELSE LET walk == WalkDir(source_dir, tree)
             found == collect(filter(filter_map(walk, tree), tree))
         IN  [done |-> TRUE, err |-> found.err, val |-> found.val,
              log |-> <<"exists">>, walked |-> Consumed(walk)]

find_video_files(source_dir, tree) ==
    IF ~source_dir.exists
    THEN [done |-> TRUE, err |-> "InvalidPath", val |-> << >>,
          log |-> <<"exists">>, walked |-> 0]
    ELSE IF ~source_dir.is_dir
    THEN [done |-> TRUE, err |-> "InvalidPath", val |-> << >>,
          log |-> <<"exists", "is_dir">>, walked |-> 0]
    ELSE LET walk == WalkDir(source_dir, tree)
             found == collect(filter(filter_map(walk, tree), tree))
         IN  [done |-> TRUE, err |-> found.err, val |-> found.val,
              log |-> <<"exists", "is_dir">>, walked |-> Consumed(walk)]

\* The root is there, with nothing in it, before the call.
InitFind ==
    /\ NoBatch
    /\ op = "find_video_files"
    /\ arg \in [source_dir : Roots, tree : {<< >>}]
    /\ ret = Pending
    /\ NoMain

\* Before the call an entry is created below the root or in a directory,
\* up to MaxEntries of them.
CreateEntry ==
    /\ op = "find_video_files"
    /\ ~ret.done
    /\ arg.source_dir.is_dir
    /\ Len(arg.tree) < MaxEntries
    /\ \E e \in EntriesUnder(arg.tree) : arg' = [arg EXCEPT !.tree = Append(@, e)]
    /\ UNCHANGED <<op, ret>>
    /\ UNCHANGED <<batchVars, mainVars>>

FindVideoFiles ==
    /\ op = "find_video_files"
    /\ ~ret.done
    /\ ret' = find_video_files(arg.source_dir, arg.tree)
    /\ UNCHANGED <<op, arg>>
    /\ UNCHANGED <<batchVars, mainVars>>

NextFind == CreateEntry \/ FindVideoFiles

SpecFind == InitFind /\ [][NextFind]_vars

(***************************************************************************)
(* Calls of build_output_path, one after the other, with the same          *)
(* arguments.                                                              *)
(***************************************************************************)

\* Two more sources: the stem of GoodFile in another directory and with
\* another extension, and a stem with a dot in it.
SiblingFile == [exists |-> TRUE, stem |-> 1, path |-> <<"/v/sub/clip.mkv">>]
DottedFile == [exists |-> TRUE, stem |-> 2, path |-> <<"/v/a.b.mp4">>]

ResolvePaths == Paths \cup {SiblingFile, DottedFile}

\* The results of the calls made so far.
Calls == IF ret.done THEN ret.calls ELSE << >>

InitResolve ==
    /\ NoBatch
    /\ op = "build_output_path"
    /\ arg \in [source_file : ResolvePaths, output_dir : OutputDirs, format : AudioFormat]
    /\ ret = Pending
    /\ NoMain

BuildOutputPath ==
    /\ op = "build_output_path"
    /\ Len(Calls) < MaxCalls
    /\ ret' = [done |-> TRUE,
               calls |-> Append(Calls,
                                build_output_path(arg.source_file, arg.output_dir, arg.format))]
    /\ UNCHANGED <<op, arg>>
    /\ UNCHANGED <<batchVars, mainVars>>

NextResolve == BuildOutputPath

SpecResolve == InitResolve /\ [][NextResolve]_vars

(***************************************************************************)
(* Calls of create_output_directory, one after the other, on a file       *)
(* system: what is at source_dir and at source_dir/audio_exports, the      *)
(* files in that directory, and whether directories may be created.        *)
(***************************************************************************)

\* The files a conversion may write into the output directory.
OutputFiles == {<<"clip.mp3">>, <<"a.b.opus">>}

\* The file systems a call may find.  Below a source that is not a
\* directory there is nothing.
FileSystems ==
    {fs \in [source : {"absent", "dir", "file"}, out : {"absent", "dir", "file"},
             contents : SUBSET OutputFiles, writable : BOOLEAN] :
        /\ fs.source # "dir" => fs.out = "absent"
        /\ fs.out # "dir" => fs.contents = {}}

\* fs::create_dir_all on source_dir/audio_exports: Ok when the directory is
\* there; Err when a file is in its place or in place of its parent, or when
\* a missing directory may not be created; else the directory and, when
\* missing, its parent are created.
create_dir_all_FailIfExists(fs) ==
    IF fs.out # "absent" \/ fs.source = "file" \/ ~fs.writable
    THEN [ok |-> FALSE, fs |-> fs]
    ELSE [ok |-> TRUE, fs |-> [fs EXCEPT !.source = "dir", !.out = "dir"]]

create_dir_all(fs) ==
    IF fs.out = "dir"
    THEN [ok |-> TRUE, fs |-> fs]
    ELSE IF fs.out = "file" \/ fs.source = "file" \/ ~fs.writable
    THEN [ok |-> FALSE, fs |-> fs]
    ELSE [ok |-> TRUE, fs |-> [fs EXCEPT !.source = "dir", !.out = "dir"]]

\* create_output_directory, lines 130-137: the Result, and the file system
\* before and after the call.
create_output_directory(source_dir, fs) ==
    LET output_dir == join(source_dir, <<"audio_exports">>)
        made == create_dir_all(fs)
    IN  IF made.ok
        THEN [ok |-> TRUE, err |-> "none", path |-> output_dir, before |-> fs, after |-> made.fs]
        ELSE [ok |-> FALSE, err |-> "Io", path |-> << >>, before |-> fs, after |-> made.fs]

InitCreateDir ==
    /\ NoBatch
    /\ op = "create_output_directory"
    /\ arg \in [source_dir : {<<"/v">>, <<"videos">>}, fs : FileSystems]
    /\ ret = Pending
    /\ NoMain

CreateOutputDirectory ==
    /\ op = "create_output_directory"
    /\ Len(Calls) < MaxCalls
    /\ ret' = [done |-> TRUE,
               calls |-> Append(Calls, create_output_directory(arg.source_dir, arg.fs))]
    /\ arg' = [arg EXCEPT !.fs = create_output_directory(arg.source_dir, arg.fs).after]
    /\ UNCHANGED op
    /\ UNCHANGED <<batchVars, mainVars>>

\* Between the calls a conversion writes a file into the output directory.
WriteOutputFile ==
    /\ op = "create_output_directory"
    /\ arg.fs.out = "dir"
    /\ \E f \in OutputFiles \ arg.fs.contents :
         arg' = [arg EXCEPT !.fs.contents = @ \cup {f}]
    /\ UNCHANGED <<op, ret>>
    /\ UNCHANGED <<batchVars, mainVars>>

NextCreateDir == CreateOutputDirectory \/ WriteOutputFile

SpecCreateDir == InitCreateDir /\ [][NextCreateDir]_vars

(***************************************************************************)
(* One run of main in batch mode (--source and --format given).  The       *)
(* command line is arg; what the run finds (the configuration files, the   *)
(* size rayon gives a pool by itself, the videos and an output file from   *)
(* an earlier run) is chosen in the initial state.                         *)
(***************************************************************************)

\* Option::None (Option::Some(x) is Some(x)).
Nothing == << >>

\* The decimal text of 0, 1, 2, ... as serde_json writes and reads it.
NumberTexts == <<"0", "1", "2", "3", "4", "5", "6", "7", "8", "9">>
number_to_text(n) == NumberTexts[n + 1]
text_to_number(t) == (CHOOSE k \in 1..Len(NumberTexts) : NumberTexts[k] = t) - 1

\* Config::default, of the fields modelled: default_jobs, skip_existing and
\* recent_source_dirs.  The other fields are written and read back as they
\* are and decide nothing here.
DefaultConfig ==
    [default_jobs |-> Nothing, skip_existing |-> FALSE, recent_source_dirs |-> << >>]

\* serde_json::to_string_pretty(&config): the members of the object.
to_json(config) ==
    << [key |-> "default_jobs",
        value |-> IF config.default_jobs = Nothing THEN <<"null">>
                  ELSE <<number_to_text(config.default_jobs[1])>>],
       [key |-> "skip_existing",
        value |-> IF config.skip_existing THEN <<"true">> ELSE <<"false">>],
       [key |-> "recent_source_dirs", value |-> config.recent_source_dirs] >>

\* The value of member key of a JSON object.
member(content, key) ==
    content[CHOOSE k \in 1..Len(content) : content[k].key = key].value

\* serde_json::from_str::<Config>(&content).
from_json(content) ==
    [default_jobs |-> IF member(content, "default_jobs") = <<"null">> THEN Nothing
                      ELSE Some(text_to_number(member(content, "default_jobs")[1])),
     skip_existing |-> member(content, "skip_existing") = <<"true">>,
     recent_source_dirs |-> member(content, "recent_source_dirs")]

\* Config::default_config_path and the path given with --config.
DefaultConfigPath == <<"~/.config/video2audio-rs/config.json">>
CustomConfigPath == <<"my.json">>
ConfigPaths == {DefaultConfigPath, CustomConfigPath}

\* What is at a path: nothing, or a file with a content.
Absent == [exists |-> FALSE, content |-> << >>]
FileOf(content) == [exists |-> TRUE, content |-> content]

\* Lines 190-193 and 213-216: the file of the configuration.
config_file_of(config_path) ==
    IF config_path = Nothing THEN DefaultConfigPath ELSE config_path[1]

\* Config::load, lines 189-205.
load(config_path, d) ==
    IF d.config[config_file_of(config_path)].exists
    THEN from_json(d.config[config_file_of(config_path)].content)
    ELSE DefaultConfig

\* Config::save, lines 212-230: the Result and the disk after it.  fs::write
\* fails on the path of a directory.
save(config, config_path, d) ==
    IF config_file_of(config_path) \in d.dirs
    THEN [err |-> "Io", disk |-> d]
    ELSE [err |-> "none",
          disk |-> [d EXCEPT !.config[config_file_of(config_path)] = FileOf(to_json(config))]]

\* The capacity of recent_source_dirs.
MaxRecent == 10

\* Truncate a sequence to at most n elements (Vec::truncate).
truncate(list, n) == IF Len(list) > n THEN SubSeq(list, 1, n) ELSE list

\* Config::add_recent_source_dir, lines 247-258: retain, insert(0, ..), truncate.
add_recent_source_dir_NoRetain(list, dir) == truncate(<<dir>> \o list, MaxRecent)

add_recent_source_dir(list, dir) ==
    truncate(<<dir>> \o SelectSeq(list, LAMBDA d : d # dir), MaxRecent)

\* RuntimeConfig::from_args_and_config, lines 326-339.
from_args_and_config_ConfigFirst(args, config) ==
    [source_dir |-> args.source_dir,
     output_dir |-> args.output_dir,
     jobs |-> IF config.default_jobs # Nothing THEN config.default_jobs ELSE args.jobs,
     skip_existing |-> args.skip_existing \/ config.skip_existing,
     save_config |-> args.save_config]

from_args_and_config(args, config) ==
    [source_dir |-> args.source_dir,
     output_dir |-> args.output_dir,
     jobs |-> IF args.jobs # Nothing THEN args.jobs ELSE config.default_jobs,
     skip_existing |-> args.skip_existing \/ config.skip_existing,
     save_config |-> args.save_config]

\* The sizes rayon gives a pool when none is asked for (the host's
\* available parallelism).
AutoSizes == {1, MaxJobs + 1}

\* rayon::ThreadPoolBuilder::num_threads(n) ... build_global(): n threads,
\* and for n = 0 the size rayon chooses by itself.
PoolOf(n, auto) == IF n = 0 THEN auto ELSE n

\* Lines 41-49: the size of the global pool that runs the batch.
pool_size(requested, auto) ==
    IF requested # Nothing THEN PoolOf(requested[1], auto) ELSE auto

\* The command lines of the runs: clap's Args, lines 22-109.
ArgsSet ==
    [source_dir : {<<"/v">>},
     format : {"Mp3"},
     output_dir : {Nothing, Some(<<"/out">>)},
     jobs : {Nothing} \cup {Some(n) : n \in 0..MaxJobs},
     skip_existing : BOOLEAN,
     config_file : {Nothing, Some(CustomConfigPath)},
     save_config : BOOLEAN]

\* The configuration files the run may find.
Configs ==
    [default_jobs : {Nothing} \cup {Some(n) : n \in 0..MaxJobs},
     skip_existing : BOOLEAN,
     recent_source_dirs : {<< <<"/old">> >>}]

\* The disks of the runs: a configuration file, if any, at the path the run
\* loads; the directories; the output file of the video ("absent", "old":
\* written by an earlier run, "new": created by this run, "overwritten":
\* written by an earlier run and again by this run).
Disks(args) ==
    {[config |-> [p \in ConfigPaths |->
                    IF p = config_file_of(args.config_file) THEN f ELSE Absent],
      dirs |-> {args.source_dir},
      output |-> o] :
        f \in {Absent} \cup {FileOf(to_json(c)) : c \in Configs},
        o \in {"absent", "old"}}

InitMain ==
    /\ NoBatch
    /\ op = "main"
    /\ arg \in [args : ArgsSet, auto : AutoSizes, found : 0..1]
    /\ ret = Pending
    /\ run = [pc |-> "start"]
    /\ disk \in Disks(arg.args)

\* Lines 23-29: Args::parse, Config::load, RuntimeConfig::from_args_and_config.
MainConfigure ==
    /\ op = "main"
    /\ run.pc = "start"
    /\ run' = [pc |-> "pool",
               config |-> load(arg.args.config_file, disk),
               runtime_config |->
                   from_args_and_config(arg.args, load(arg.args.config_file, disk)),
               pool |-> 0,
               output_dir |-> << >>,
               invoked |-> 0,
               counts |-> <<0, 0>>]
    /\ UNCHANGED <<op, arg, ret, disk>>
    /\ UNCHANGED batchVars

\* Lines 41-49: the global thread pool.
MainPool ==
    /\ op = "main"
    /\ run.pc = "pool"
    /\ run' = [run EXCEPT !.pc = "mode",
                          !.pool = pool_size(run.runtime_config.jobs, arg.auto)]
    /\ UNCHANGED <<op, arg, ret, disk>>
    /\ UNCHANGED batchVars

\* Lines 57 and 181-206, batch_mode: the output directory is created.
MainMode ==
    /\ op = "main"
    /\ run.pc = "mode"
    /\ LET dir == IF run.runtime_config.output_dir # Nothing
                  THEN run.runtime_config.output_dir[1]
                  ELSE join(run.runtime_config.source_dir, <<"audio_exports">>)
       IN  /\ run' = [run EXCEPT !.pc = "find", !.output_dir = dir]
           /\ disk' = [disk EXCEPT !.dirs = @ \cup {dir}]
    /\ UNCHANGED <<op, arg, ret>>
    /\ UNCHANGED batchVars

\* Lines 61-74: find_video_files; without a video main returns.
MainFind ==
    /\ op = "main"
    /\ run.pc = "find"
    /\ IF arg.found = 0
       THEN /\ run' = [run EXCEPT !.pc = "done"]
            /\ ret' = [done |-> TRUE, err |-> "none"]
       ELSE /\ run' = [run EXCEPT !.pc = "convert"]
            /\ UNCHANGED ret
    /\ UNCHANGED <<op, arg, disk>>
    /\ UNCHANGED batchVars

\* Lines 77-86: batch_convert(&files_to_process, &output_dir, chosen_format, ..)
\* for the video found.  ffmpeg is given -y and writes the output file when
\* it succeeds.
MainConvert ==
    /\ op = "main"
    /\ run.pc = "convert"
    /\ \E env \in Envs :
         LET r == convert_single_file(GoodFile, run.output_dir, arg.args.format, env)
         IN  /\ run' = [run EXCEPT
                          !.pc = "recent",
                          !.invoked = IF r.argv # << >> /\ env.spawned THEN 1 ELSE 0,
                          !.counts = IF r.err = "none" THEN <<1, 0>> ELSE <<0, 1>>]
             /\ disk' = [disk EXCEPT
                           !.output = IF r.err # "none" THEN @
                                      ELSE IF @ = "absent" THEN "new" ELSE "overwritten"]
    /\ UNCHANGED <<op, arg, ret>>
    /\ UNCHANGED batchVars

\* Line 104: config.add_recent_source_dir(&source_path.to_string_lossy()).
MainRecent ==
    /\ op = "main"
    /\ run.pc = "recent"
    /\ run' = [run EXCEPT
                 !.pc = "save",
                 !.config.recent_source_dirs =
                     add_recent_source_dir(@, run.runtime_config.source_dir)]
    /\ UNCHANGED <<op, arg, ret, disk>>
    /\ UNCHANGED batchVars

\* The Option<&PathBuf> main gives to Config::save (line 108).
save_path(args, runtime_config) == runtime_config.output_dir

\* Lines 107-114: config.save(..)? when save_config is set; Ok(()).
MainSave ==
    /\ op = "main"
    /\ run.pc = "save"
    /\ LET saved == save(run.config, save_path(arg.args, run.runtime_config), disk)
       IN  IF run.runtime_config.save_config
           THEN /\ disk' = saved.disk
                /\ ret' = [done |-> TRUE, err |-> saved.err]
           ELSE /\ ret' = [done |-> TRUE, err |-> "none"]
                /\ UNCHANGED disk
    /\ run' = [run EXCEPT !.pc = "done"]
    /\ UNCHANGED <<op, arg>>
    /\ UNCHANGED batchVars

NextMain ==
    \/ MainConfigure
    \/ MainPool
    \/ MainMode
    \/ MainFind
    \/ MainConvert
    \/ MainRecent
    \/ MainSave

SpecMain == InitMain /\ [][NextMain]_vars

(***************************************************************************)
(* batch_convert under fair scheduling                                     *)
(***************************************************************************)

\* The steps of worker w: the closure of for_each run by one pool thread.
WorkerStep(w) ==
    \/ \E i \in Items : TakeItem(w, i)
    \/ ConvertBegin(w)
    \/ FfmpegExit(w)
    \/ LockCategory(w)
    \/ IncCategory(w)
    \/ NotifyProgress(w)
    \/ SinkReturn(w)

\* The calling thread and every pool thread are operating-system threads:
\* one that can take a step for ever is scheduled in the end.  ffmpeg exits
\* (FfmpegExit) and the callback returns (SinkReturn).
Fairness ==
    /\ WF_vars(BatchConvertEnter)
    /\ \A w \in 1..MaxJobs : WF_vars(w \in Workers /\ WorkerStep(w))
    /\ WF_vars(BatchConvertReturn)

FairSpec == Spec /\ Fairness

(***************************************************************************)
(* batch_convert on two files, with the arguments of each conversion       *)
(* process and the order in which the processes start and exit.  The       *)
(* counters are as in the batch above; here each is updated in one step.    *)
(***************************************************************************)

\* The files of the tree that exist and have a name.
NamedFiles == {GoodFile, SiblingFile, DottedFile}

InitPair ==
    /\ NoBatch
    /\ op = "batch_convert"
    /\ arg \in [files : NamedFiles \X NamedFiles, output_dir : OutputDirs,
                format : AudioFormat, jobs : 1..MaxJobs, launchable : BOOLEAN]
    /\ ret = Pending
    /\ run = [pc |-> "pair", state |-> <<"Pending", "Pending">>,
              argv |-> << << >>, << >> >>, events |-> << >>,
              success |-> 0, failure |-> 0]
    /\ disk = << >>

\* Lines 170, 224-234 and 287-316 for item i on a free pool thread: the
\* checks of convert_single_file, then Command::output spawns ffmpeg with
\* the arguments of lines 298-308, which opens the output file.  An error
\* before that is counted by the Err arm (lines 176-177).
SpawnConversion(i) ==
    /\ op = "batch_convert"
    /\ run.pc = "pair"
    /\ run.state[i] = "Pending"
    /\ Cardinality({j \in 1..2 : run.state[j] = "Running"}) < arg.jobs
    /\ \E code \in ExitCodes, utf8 \in BOOLEAN, spawned \in BOOLEAN :
         LET source_file == arg.files[i]
             p == PreSpawn(source_file, arg.output_dir, arg.format,
                           CommandStatus(arg.launchable, code), utf8)
             output_path == build_output_path(source_file, arg.output_dir, arg.format).path
             args == ConversionArgs(source_file.path, output_path, arg.format)
         IN IF p.err = "none" /\ spawned
            THEN /\ run' = [run EXCEPT !.state[i] = "Running",
                                       !.argv[i] = args,
                                       !.events = Append(@, <<"spawn", i>>)]
                 /\ disk' = Append(disk, output_path)
            ELSE /\ run' = [run EXCEPT
                              !.state[i] = "Failed",
                              !.argv[i] = IF p.err = "none" THEN args ELSE << >>,
                              !.success = ArmCounts("Err", run.success, run.failure)[1],
                              !.failure = ArmCounts("Err", run.success, run.failure)[2]]
                 /\ UNCHANGED disk
    /\ UNCHANGED <<op, arg, ret>>
    /\ UNCHANGED batchVars

\* Lines 318-325, 239 and 171-177: the conversion process of item i exits
\* and the arm of its Result is counted.
ConversionExit(i) ==
    /\ op = "batch_convert"
    /\ run.pc = "pair"
    /\ run.state[i] = "Running"
    /\ \E code \in ExitCodes, stderr \in StdErrs :
         LET r == IF ConversionResult(code, stderr).err = "none" THEN "Ok" ELSE "Err"
         IN run' = [run EXCEPT
                      !.state[i] = IF r = "Ok" THEN "Succeeded" ELSE "Failed",
                      !.events = Append(@, <<"exit", i>>),
                      !.success = ArmCounts(r, run.success, run.failure)[1],
                      !.failure = ArmCounts(r, run.success, run.failure)[2]]
    /\ UNCHANGED <<op, arg, ret, disk>>
    /\ UNCHANGED batchVars

\* Lines 194-197: for_each has returned; the counters are returned.
PairReturn ==
    /\ op = "batch_convert"
    /\ run.pc = "pair"
    /\ \A i \in 1..2 : run.state[i] \in {"Succeeded", "Failed"}
    /\ ret' = [done |-> TRUE, val |-> <<run.success, run.failure>>]
    /\ run' = [run EXCEPT !.pc = "returned"]
    /\ UNCHANGED <<op, arg, disk>>
    /\ UNCHANGED batchVars

NextPair ==
    \/ \E i \in 1..2 : SpawnConversion(i)
    \/ \E i \in 1..2 : ConversionExit(i)
    \/ PairReturn

SpecPair == InitPair /\ [][NextPair]_vars

(***************************************************************************)
(* Runs of the program, one after the other, on one source directory with  *)
(* the default output directory: the output directory is made, the tree    *)
(* is searched, and the conversions write their files into the output      *)
(* directory.                                                              *)
(***************************************************************************)

\* What the source tree holds before the first run: videos, audio files
\* of an earlier export, and directories.
SourceKinds ==
    {[kind |-> "file", ext |-> Some(<<"m", "p", "4">>), readable |-> TRUE],
     [kind |-> "file", ext |-> Some(<<"m", "p", "3">>), readable |-> TRUE],
     [kind |-> "dir", ext |-> NoExt, readable |-> TRUE]}

\* The entry of a file a conversion to format writes into
\* source_dir/audio_exports (out: the index of the directory in the tree).
OutputEntry(out, format) ==
    [parent |-> out, kind |-> "file", ext |-> Some(extension(format)), readable |-> TRUE]

\* n entries e at the end of the tree.
RECURSIVE Grow(_, _, _)
Grow(tree, e, n) == IF n = 0 THEN tree ELSE Grow(Append(tree, e), e, n - 1)

\* The file system create_output_directory sees.
FsOf(a) ==
    [source |-> "dir", out |-> IF a.out = 0 THEN "absent" ELSE "dir",
     contents |-> {}, writable |-> a.writable]

InitRerun ==
    /\ NoBatch
    /\ op = "main twice"
    /\ arg \in [source_dir : {r \in Roots : r.is_dir}, tree : {<< >>}, out : {0},
                writable : BOOLEAN, outputs : {{}}]
    /\ ret = Pending
    /\ NoMain

\* Before the first run an entry is put below the root or in a directory.
PlantEntry ==
    /\ op = "main twice"
    /\ ~ret.done
    /\ Len(arg.tree) < MaxEntries
    /\ \E q \in {0} \cup {j \in 1..Len(arg.tree) : arg.tree[j].kind = "dir"},
          e \in SourceKinds :
         arg' = [arg EXCEPT !.tree = Append(@, [parent |-> q, kind |-> e.kind,
                                                ext |-> e.ext, readable |-> e.readable])]
    /\ UNCHANGED <<op, ret>>
    /\ UNCHANGED <<batchVars, mainVars>>

\* main.rs lines 52-86 in batch mode without --output: batch_mode makes
\* source_dir/audio_exports (line 202), find_video_files searches the tree
\* (line 61), main returns when nothing is found (line 68), else
\* batch_convert runs the conversions, of which the first `written` leave an
\* output file.
DiscoverThenConvert ==
    /\ op = "main twice"
    /\ Len(Calls) < MaxCalls
    /\ \E made \in {create_output_directory(<<"/v">>, FsOf(arg))} :
       \E tree1 \in {IF made.ok /\ arg.out = 0
                      THEN Append(arg.tree, [parent |-> 0, kind |-> "dir", ext |-> NoExt,
                                             readable |-> TRUE])
                      ELSE arg.tree} :
       \E found \in {IF made.ok
                      THEN find_video_files(arg.source_dir, tree1)
                      ELSE [done |-> TRUE, err |-> made.err, val |-> << >>,
                            log |-> << >>, walked |-> 0]} :
       \E format \in AudioFormat, failed \in 0..1 :
         LET out == IF made.ok /\ arg.out = 0 THEN Len(tree1) ELSE arg.out
             written == IF Len(found.val) > failed THEN Len(found.val) - failed ELSE 0
         IN /\ ret' = [done |-> TRUE,
                       calls |-> Append(Calls, [err |-> found.err, val |-> found.val,
                                                format |-> format, written |-> written])]
            /\ arg' = [arg EXCEPT
                         !.tree = Grow(tree1, OutputEntry(out, format), written),
                         !.out = out,
                         !.outputs = @ \cup (Len(tree1) + 1 .. Len(tree1) + written)]
    /\ UNCHANGED op
    /\ UNCHANGED <<batchVars, mainVars>>

NextRerun == PlantEntry \/ DiscoverThenConvert

SpecRerun == InitRerun /\ [][NextRerun]_vars

(***************************************************************************)
(* Calls of add_recent_source_dir, one after the other, on one list.       *)
(***************************************************************************)

\* The directories given to the program: two more than the list holds.
RecentDirs == {<<"/d", n>> : n \in 1..(MaxRecent + 2)}

\* The lists saved by earlier runs: /d1 was added last, then /d2, ...
SavedLists == {[k \in 1..n |-> <<"/d", k>>] : n \in {0, 1, MaxRecent - 1, MaxRecent}}

\* The calls made so far: the list before, the directory and the list after.
Adds == IF ret.done THEN ret.adds ELSE << >>

\* recent_source_dirs now.
recent_source_dirs == IF Adds = << >> THEN arg.list ELSE Adds[Len(Adds)].after

InitRecent ==
    /\ NoBatch
    /\ op = "add_recent_source_dir"
    /\ arg \in [list : SavedLists]
    /\ ret = Pending
    /\ NoMain

AddRecentSourceDir ==
    /\ op = "add_recent_source_dir"
    /\ Len(Adds) < MaxAdds
    /\ \E dir \in RecentDirs :
         ret' = [done |-> TRUE,
                 adds |-> Append(Adds,
                                 [before |-> recent_source_dirs, dir |-> dir,
                                  after |-> add_recent_source_dir(recent_source_dirs, dir)])]
    /\ UNCHANGED <<op, arg>>
    /\ UNCHANGED <<batchVars, mainVars>>

NextRecent == AddRecentSourceDir

SpecRecent == InitRecent /\ [][NextRecent]_vars

(***************************************************************************)
(* Properties of batch_convert.                                            *)
(***************************************************************************)

Terminal == {"Succeeded", "Failed"}

Running == {i \in Items : itemState[i] = "Running"}

\* The items convert_single_file fails on whatever the conversion process does.
CertainToFail(i) == \A p \in PreSpawnOutcomes(files[i], ffmpegLaunchable) : p.err # "none"

\* C1: in every reachable state of batch_convert the tally satisfies
\* processed = succeeded + failed (the category counter and the processed
\* counter change in one atomic step).
C1_TallyNeverTorn == progress_counter = success_counter + failure_counter

\* C2: whatever the file list and the pool size, batch_convert returns
\* (succeeded, failed) with succeeded + failed = len(files); when every item
\* is certain to fail the result is (0, len(files)).
C2_TallyComplete ==
    phase = "returned" =>
        /\ Len(result) = 2
        /\ result[1] + result[2] = Len(files)
        /\ (\A i \in Items : CertainToFail(i)) => result = <<0, Len(files)>>

C2_Witness ==
    /\ phase = "returned"
    /\ jobs >= 2
    /\ Len(files) >= 2
    /\ \A i \in Items : ~files[i].exists
    /\ result = <<0, Len(files)>>

\* C3: the k-th notification the sink receives is (k, N), N = len(files), and
\* when batch_convert returns the sink has received exactly N notifications.
C3_ProgressInOrder ==
    /\ \A k \in 1..Len(delivered) : delivered[k] = <<k, Len(files)>>
    /\ Len(delivered) <= Len(files)
    /\ phase = "returned" => Len(delivered) = Len(files)

C3_Witness ==
    /\ phase = "returned"
    /\ jobs >= 2
    /\ Len(delivered) >= 2
    /\ delivered[Len(delivered)] = <<Len(files), Len(files)>>

\* C4: the progress sink is never executing in two workers at once.
C4_SinkExclusive == Cardinality(inSink) <= 1

C4_Witness ==
    \E w, v \in Workers :
        /\ w # v
        /\ inSink = {w}
        /\ pc[v] = "progress"

\* C5: between the recording of an item's outcome in the tally (its
\* category counter) and the delivery of that item's notification, no other
\* item's completion is recorded.
C5_NoCompletionInBetween ==
    [][(\E w \in Workers : pc[w] = "progress")
         => success_counter' + failure_counter' = success_counter + failure_counter]_vars

\* C6: a failing item is counted as one failure and changes nothing else:
\* the step in which an item fails leaves the batch running and every other
\* item as it was, and when batch_convert returns every item is terminal and
\* `failed` is the number of items that failed.
C6_FailureIsolated ==
    /\ [](phase = "returned" =>
            /\ \A i \in Items : itemState[i] \in Terminal
            /\ result[2] = Cardinality({i \in Items : itemState[i] = "Failed"}))
    /\ [][\A i \in Items :
            (itemState[i] # "Failed" /\ itemState'[i] = "Failed") =>
                /\ phase' = "running"
                /\ \A j \in Items \ {i} : itemState'[j] = itemState[j]]_vars

C6_Witness ==
    /\ phase = "returned"
    /\ \E i, j \in Items :
         /\ i < j
         /\ itemState[i] = "Failed"
         /\ itemState[j] = "Succeeded"
    /\ result[2] >= 1
    /\ result[1] >= 1

\* C7: on an empty file list batch_convert returns (0, 0), delivers no
\* notification, makes no availability probe and starts no conversion.
C7_EmptyBatch ==
    Len(files) = 0 =>
        /\ probes = 0
        /\ delivered = << >>
        /\ \A w \in Workers : pc[w] = "idle"
        /\ phase = "returned" => result = <<0, 0>>

C7_Witness ==
    /\ Len(files) = 0
    /\ phase = "returned"
    /\ result = <<0, 0>>

\* C8: every item goes Pending -> Running -> Succeeded or Failed, is
\* dispatched exactly once, and leaves no terminal state (no retry).
C8_ItemLifecycle ==
    /\ [](\A i \in Items :
            /\ dispatched[i] <= 1
            /\ itemState[i] = "Pending" <=> dispatched[i] = 0
            /\ phase = "returned" => dispatched[i] = 1)
    /\ [][\A i \in Items :
            itemState'[i] # itemState[i] =>
                \/ itemState[i] = "Pending" /\ itemState'[i] = "Running"
                \/ itemState[i] = "Running" /\ itemState'[i] \in Terminal]_vars

C8_Witness ==
    /\ phase = "returned"
    /\ \E i, j \in Items :
         /\ itemState[i] = "Failed"
         /\ itemState[j] = "Succeeded"
    /\ \A i \in Items : dispatched[i] = 1

\* C9: a worker runs one convert_single_file call to its end before it takes
\* another item: every Running item is being executed by a worker, so at
\* most `jobs` items are Running.
C9_RunningBounded ==
    /\ Cardinality(Running) <= jobs
    /\ \A i \in Running :
         \E w \in Workers : cur[w] = i /\ pc[w] \in {"convert", "ffmpeg"}

C9_Witness ==
    /\ jobs >= 2
    /\ Cardinality(Running) = jobs
    /\ \A w \in Workers : pc[w] = "ffmpeg"
    /\ \E i \in Items : itemState[i] = "Pending"

\* C10: batch_convert returns only when every item is terminal and every
\* closure call has ended: nothing is Pending or Running at the return.
C10_ReturnAfterAll ==
    phase = "returned" =>
        /\ \A i \in Items : itemState[i] \in Terminal
        /\ \A w \in Workers : pc[w] = "idle"

C10_Witness ==
    /\ phase = "returned"
    /\ jobs >= 2
    /\ Len(files) > jobs
    /\ \E i \in Items : itemState[i] = "Succeeded"

(***************************************************************************)
(* convert_single_file                                                     *)
(***************************************************************************)

\* The call of convert_single_file has returned.
Returned == op = "convert_single_file" /\ ret.done

\* The checks of convert_single_file in the order of the code.
CheckOrder == <<"exists", "resolve", "probe", "invoke">>

\* The source file exists and has a file stem.
WellNamed(source_file) == source_file.exists /\ source_file.stem # None

\* C11: convert_single_file performs its checks in the order exists,
\* resolve, probe, invoke and stops at the first that fails: a nonexistent
\* source is InvalidPath with no probe and no invocation; a source without
\* file stem is InvalidPath with no probe; an ffmpeg that cannot be launched
\* is MissingDependency with no conversion command.
C11_CheckOrder ==
    Returned =>
        /\ ret.log = SubSeq(CheckOrder, 1, Len(ret.log))
        /\ ret.probes = Cardinality({k \in 1..Len(ret.log) : ret.log[k] = "probe"})
        /\ ~arg.source_file.exists =>
              /\ ret.err = "InvalidPath"
              /\ ret.log = <<"exists">>
              /\ ret.probes = 0
              /\ ret.argv = << >>
        /\ (arg.source_file.exists /\ arg.source_file.stem = None) =>
              /\ ret.err = "InvalidPath"
              /\ ret.log = <<"exists", "resolve">>
              /\ ret.probes = 0
              /\ ret.argv = << >>
        /\ (WellNamed(arg.source_file) /\ ~arg.env.status.launched) =>
              /\ ret.err = "MissingDependency"
              /\ ret.log = <<"exists", "resolve", "probe">>
              /\ ret.argv = << >>

\* A source without file stem was rejected although ffmpeg cannot be launched.
C11_Witness ==
    /\ Returned
    /\ arg.source_file.exists /\ arg.source_file.stem = None
    /\ ~arg.env.status.launched
    /\ ret.err = "InvalidPath"

\* C12: the probe fails with MissingDependency exactly when `ffmpeg
\* -version` cannot be launched; when it is launched the probe succeeds
\* whatever its exit status.
C12_ProbeFailsIffUnlaunchable ==
    (Returned /\ WellNamed(arg.source_file)) =>
        /\ ret.err = "MissingDependency" <=> ~arg.env.status.launched
        /\ arg.env.status.launched =>
              (ret.log = CheckOrder \/ (~arg.env.utf8 /\ ret.err = "InvalidPath"))

\* The probe exited with a non-zero status and the conversion went on to succeed.
C12_Witness ==
    /\ Returned
    /\ arg.env.status.launched /\ arg.env.status.code # 0
    /\ ret.err = "none"

\* The conversion process ran: the command was built and spawned.
ChildRan == Returned /\ ret.argv # << >> /\ arg.env.spawned

\* C13: when the conversion process runs, convert_single_file returns
\* Ok(output path) iff it exits with status 0; on a non-zero exit it returns
\* FfmpegError whose message carries the captured stderr.
C13_ExitStatusDecides ==
    ChildRan =>
        /\ ret.err = "none" <=> arg.env.code = 0
        /\ ret.err = "none" =>
              ret.val = join(arg.output_dir,
                             Stems[arg.source_file.stem] \o <<".">> \o extension(arg.format))
        /\ arg.env.code # 0 =>
              /\ ret.err = "FfmpegError"
              /\ Len(ret.msg) >= Len(arg.env.stderr)
              /\ SubSeq(ret.msg, Len(ret.msg) - Len(arg.env.stderr) + 1, Len(ret.msg))
                   = arg.env.stderr

\* A conversion process that wrote to stderr and exited with a non-zero status.
C13_Witness ==
    /\ ChildRan
    /\ arg.env.code # 0 /\ arg.env.stderr # << >>
    /\ ret.err = "FfmpegError"

\* C14: the arguments of the ffmpeg command are "-y", the quiet flags,
\* "-i", the source, "-vn", then the non-empty ffmpeg_args of the format in
\* order, then the output path as the last token; no two formats have the
\* same ffmpeg_args.
C14_ArgvTemplate ==
    (Returned /\ ret.argv # << >>) =>
        LET argv == ret.argv
            n == Len(argv)
            fa == ffmpeg_args(arg.format)
        IN /\ n = 7 + Len(fa) + 1
           /\ SubSeq(argv, 1, 5)
                = << <<"-y">>, <<"-hide_banner">>, <<"-loglevel">>, <<"error">>, <<"-i">> >>
           /\ argv[6] = arg.source_file.path
           /\ argv[7] = <<"-vn">>
           /\ Len(fa) > 0
           /\ SubSeq(argv, 8, n - 1) = fa
           /\ argv[n] = join(arg.output_dir,
                             Stems[arg.source_file.stem] \o <<".">> \o extension(arg.format))
           /\ \A g \in AudioFormat : g # arg.format => ffmpeg_args(g) # fa

\* A command was built for the format with the longest argument list.
C14_Witness ==
    /\ Returned
    /\ arg.format = "Opus"
    /\ Len(ret.argv) = 12

(***************************************************************************)
(* A batch without ffmpeg                                                  *)
(***************************************************************************)

\* ffmpeg cannot be launched and every file of the batch exists and has a stem.
ToolMissingBatch == ~ffmpegLaunchable /\ \A i \in Items : WellNamed(files[i])

\* C15: when ffmpeg cannot be launched, a batch of N existing, well-named
\* files does not stop at the first failure: every item is probed (N probes),
\* every item fails with MissingDependency, and the batch returns (0, N).
C15_NoFailFast ==
    ToolMissingBatch =>
        /\ \A w \in Workers :
              pc[w] \in {"match", "arm"} => res[w] = "MissingDependency"
        /\ \A i \in Items :
              itemState[i] \in Terminal =>
                  /\ itemState[i] = "Failed"
                  /\ log[i] = <<"exists", "resolve", "probe">>
        /\ phase = "returned" =>
              /\ \A i \in Items : itemState[i] = "Failed"
              /\ probes = Len(files)
              /\ result = <<0, Len(files)>>

\* A batch of MaxFiles files returned without ffmpeg.
C15_Witness ==
    /\ ToolMissingBatch
    /\ Len(files) = MaxFiles
    /\ phase = "returned"
    /\ probes = MaxFiles

(***************************************************************************)
(* find_video_files                                                        *)
(***************************************************************************)

\* The call of find_video_files has returned.
Found == op = "find_video_files" /\ ret.done

\* Entry k and the directories above it.
RECURSIVE Above(_, _)
Above(tree, k) == IF k = 0 THEN {0} ELSE {k} \cup Above(tree, tree[k].parent)

\* The number of directories above entry k, the root included.
Depth(tree, k) == Cardinality(Above(tree, k)) - 1

\* The directories of the tree that cannot be read, the root (0) included.
Unreadable(source_dir, tree) ==
    {k \in 1..Len(tree) : tree[k].kind = "dir" /\ ~tree[k].readable}
    \cup (IF source_dir.readable THEN {} ELSE {0})

\* The regular files of the tree whose extension is in the allow-list when
\* upper and lower case are not distinguished.
Candidates(tree) ==
    {k \in 1..Len(tree) :
        /\ tree[k].kind = "file"
        /\ tree[k].ext # NoExt
        /\ \E x \in 1..Len(supported_extensions) :
              /\ Len(supported_extensions[x]) = Len(tree[k].ext[1])
              /\ \A c \in 1..Len(supported_extensions[x]) :
                    LowerChar(tree[k].ext[1][c]) = LowerChar(supported_extensions[x][c])}

\* C16: for a directory tree that can be read, find_video_files returns
\* every regular file whose extension is in the allow-list, whatever its
\* case and depth, exactly once, and nothing else.
C16_ExactlyTheCandidates ==
    (Found /\ arg.source_dir.is_dir /\ Unreadable(arg.source_dir, arg.tree) = {}) =>
        /\ ret.err = "none"
        /\ {ret.val[k] : k \in 1..Len(ret.val)} = Candidates(arg.tree)
        /\ \A j, k \in 1..Len(ret.val) : ret.val[j] = ret.val[k] => j = k

\* A tree with a directory named as a video, and in it a video with a
\* mixed-case extension that was returned.
C16_Witness ==
    /\ Found
    /\ ret.err = "none"
    /\ \E k \in 1..Len(ret.val) :
          /\ Depth(arg.tree, ret.val[k]) = 2
          /\ arg.tree[ret.val[k]].ext = Some(<<"M", "k", "V">>)
          /\ arg.tree[arg.tree[ret.val[k]].parent].ext # NoExt

\* C17: find_video_files returns InvalidPath and no list when the root does
\* not exist, and when it exists but is not a directory; existence is
\* checked before the file type, and no walk is started.
C17_RootChecked ==
    (Found /\ ~arg.source_dir.is_dir) =>
        /\ ret.err = "InvalidPath"
        /\ ret.val = << >>
        /\ ret.walked = 0
        /\ ret.log = IF arg.source_dir.exists THEN <<"exists", "is_dir">> ELSE <<"exists">>

\* The root is a regular file and was rejected.
C17_Witness ==
    /\ Found
    /\ arg.source_dir.exists /\ ~arg.source_dir.is_dir
    /\ ret.err = "InvalidPath"

\* A directory that cannot be read and is met by the walk: those above it can be read.
MetUnreadable(source_dir, tree) ==
    {k \in Unreadable(source_dir, tree) :
        Above(tree, k) \cap Unreadable(source_dir, tree) = {k}}

\* C18: if the walk meets an entry that cannot be read, find_video_files
\* fails as a whole with Io and returns no partial list, however many
\* candidates are in the tree.
C18_NoPartialList ==
    (Found /\ arg.source_dir.is_dir /\ MetUnreadable(arg.source_dir, arg.tree) # {}) =>
        /\ ret.err = "Io"
        /\ ret.val = << >>

\* A candidate before and a candidate after the directory that cannot be read.
C18_Witness ==
    /\ Found
    /\ ret.err = "Io"
    /\ \E k \in MetUnreadable(arg.source_dir, arg.tree) :
          \E i, j \in Candidates(arg.tree) :
              /\ i < k /\ k < j
              /\ arg.tree[i].parent = 0 /\ arg.tree[j].parent = 0

(***************************************************************************)
(* AudioFormat::from_user_input                                            *)
(***************************************************************************)

\* The call of from_user_input has returned.
Selected == op = "from_user_input" /\ ret.done

\* The decimal digits, and the string of the ordinal i (i < 10).
Digits == <<"1", "2", "3", "4", "5", "6", "7", "8", "9">>
Ordinal(i) == <<Digits[i]>>

\* C19: the strings "1".."N", N the length of all_formats, map one to one
\* onto all_formats: the string of i selects all_formats[i], and every
\* format is selected by some string.
C19_OrdinalsBijective ==
    /\ \A i, j \in 1..Len(all_formats) : all_formats[i] = all_formats[j] => i = j
    /\ \A f \in AudioFormat :
          \E i \in 1..Len(all_formats) :
              /\ from_user_input(Ordinal(i)).err = "none"
              /\ from_user_input(Ordinal(i)).val = f
    /\ Selected =>
          \A i \in 1..Len(all_formats) :
              Input = Ordinal(i) => (ret.err = "none" /\ ret.val = all_formats[i])

\* The last ordinal selected the last format.
C19_Witness ==
    /\ Selected
    /\ Input = Ordinal(Len(all_formats))
    /\ ret.err = "none"
    /\ ret.val = all_formats[Len(all_formats)]

\* Strings x and y are the same when upper and lower case are not distinguished.
SameIgnoringCase(x, y) ==
    /\ Len(x) = Len(y)
    /\ \A c \in 1..Len(x) : LowerChar(x[c]) = LowerChar(y[c])

\* The format names and the ordinals in range, with the format they select.
Known ==
    {[text |-> <<"m", "p", "3">>, format |-> "Mp3"],
     [text |-> <<"a", "a", "c">>, format |-> "AacCopy"],
     [text |-> <<"a", "a", "c", "-", "c", "o", "p", "y">>, format |-> "AacCopy"],
     [text |-> <<"o", "p", "u", "s">>, format |-> "Opus"]}
    \cup {[text |-> Ordinal(i), format |-> all_formats[i]] : i \in 1..Len(all_formats)}

\* C20: from_user_input ignores white space around the input and the case
\* of its letters, and returns InvalidInput for every input that is then
\* neither an ordinal in range nor a known name: the empty string, white
\* space only, the ordinals 0 and N+1, unknown names such as "mp4".
C20_InvalidRejected ==
    Selected =>
        /\ \A k \in Known :
              SameIgnoringCase(arg.word, k.text) => (ret.err = "none" /\ ret.val = k.format)
        /\ (\A k \in Known : ~SameIgnoringCase(arg.word, k.text)) =>
              (ret.err = "InvalidInput" /\ ret.val = "none")
        /\ arg.word \in {<< >>, <<"0">>, Ordinal(Len(all_formats) + 1), <<"m", "p", "4">>} =>
              ret.err = "InvalidInput"

\* White space only was rejected.
C20_Witness ==
    /\ Selected
    /\ arg.word = << >>
    /\ arg.left # << >> /\ arg.right # << >>
    /\ ret.err = "InvalidInput"

(***************************************************************************)
(* build_output_path                                                       *)
(***************************************************************************)

\* Path::extension of a path text: what follows its last dot.
path_extension(path) ==
    IF \E k \in 1..Len(path) : path[k] = "."
    THEN Some(SubSeq(path,
                     1 + CHOOSE k \in 1..Len(path) :
                             path[k] = "." /\ \A j \in (k + 1)..Len(path) : path[j] # ".",
                     Len(path)))
    ELSE NoExt

\* C21: build_output_path reads nothing but its arguments: for a source
\* with a file stem, existing or not, every call returns
\* output_dir/<stem>.<extension of the format>, a path whose extension is
\* that of the format; for a source without stem every call returns
\* InvalidPath.
C21_ResolveIsAFunction ==
    op = "build_output_path" =>
        \A k \in 1..Len(Calls) :
            /\ arg.source_file.stem # None =>
                 /\ Calls[k].ok
                 /\ Calls[k].path
                      = arg.output_dir \o <<"/">> \o Stems[arg.source_file.stem]
                          \o <<".">> \o extension(arg.format)
                 /\ path_extension(Calls[k].path) = Some(extension(arg.format))
                 /\ Calls[k].path = Calls[1].path
            /\ arg.source_file.stem = None =>
                 (~Calls[k].ok /\ Calls[k].err = "InvalidPath")

\* A source that does not exist was resolved MaxCalls times.
C21_Witness ==
    /\ op = "build_output_path"
    /\ Len(Calls) = MaxCalls
    /\ ~arg.source_file.exists
    /\ Calls[MaxCalls].ok

(***************************************************************************)
(* create_output_directory                                                 *)
(***************************************************************************)

\* C22: a call of create_output_directory that succeeds returns
\* source_dir/audio_exports and the directory exists after it; a call that
\* finds the directory succeeds, returns the same path as the calls before
\* it and leaves the directory and the files in it as they were.
C22_CreateIdempotent ==
    op = "create_output_directory" =>
        \A k \in 1..Len(Calls) :
            /\ Calls[k].ok =>
                 /\ Calls[k].path = arg.source_dir \o <<"/">> \o <<"audio_exports">>
                 /\ Calls[k].after.out = "dir"
            /\ Calls[k].before.out = "dir" =>
                 /\ Calls[k].ok
                 /\ Calls[k].after = Calls[k].before
            /\ (k > 1 /\ Calls[k - 1].ok) =>
                 /\ Calls[k].ok
                 /\ Calls[k].path = Calls[k - 1].path

\* The directory was created by one call, a file was written into it, and
\* the next call left the file there.
C22_Witness ==
    /\ op = "create_output_directory"
    /\ Len(Calls) = MaxCalls
    /\ Calls[MaxCalls - 1].before.out = "absent"
    /\ Calls[MaxCalls - 1].ok
    /\ Calls[MaxCalls].ok
    /\ Calls[MaxCalls].after.contents # {}

(***************************************************************************)
(* main                                                                    *)
(***************************************************************************)

\* The pool of the run has been set up.
PoolSet == op = "main" /\ run.pc \notin {"start", "pool"}

Converted == op = "main" /\ run.pc \in {"recent", "save", "done"} /\ arg.found > 0

\* C24: with skip_existing set (on the command line or in the
\* configuration file) a video whose output file exists is skipped: ffmpeg
\* is not invoked for it and the output file is not written again.
C24_ExistingSkipped ==
    (Converted /\ run.runtime_config.skip_existing) =>
        /\ disk.output # "overwritten"
        /\ disk.output = "old" => run.invoked = 0

\* C25: with --save-config, a run that found a video saves the
\* configuration to the file Config::load reads (the --config path when
\* given, else the default path), whether or not an output directory was
\* given: main returns Ok and a load of that path gives the configuration
\* saved.
C25_SavedWhereLoaded ==
    (op = "main" /\ run.pc = "done" /\ arg.found > 0 /\ arg.args.save_config) =>
        /\ ret.err = "none"
        /\ load(arg.args.config_file, disk) = run.config

(***************************************************************************)
(* The order of the counters in batch_convert                              *)
(***************************************************************************)

\* C26: an item's category counter is incremented before its progress
\* counter: in every state progress <= success + failure <= progress +
\* (number of workers); when the sink is given current = k, success +
\* failure >= k, and = k when k is the number of files.
C26_CategoryBeforeProgress ==
    /\ progress_counter <= success_counter + failure_counter
    /\ success_counter + failure_counter <= progress_counter + jobs
    /\ \A n \in 1..Len(delivered) :
          /\ delivered[n][1] <= success_counter + failure_counter
          /\ (phase = "running" /\ delivered[n][1] = Len(files)) =>
                success_counter + failure_counter = Len(files)

\* The sink is given current = k for a k below the number of files while
\* success + failure is already above k.
C26_Witness ==
    /\ inSink # {}
    /\ progress_counter < Len(files)
    /\ delivered[Len(delivered)][1] = progress_counter
    /\ success_counter + failure_counter > progress_counter

(***************************************************************************)
(* Locks and termination of batch_convert                                  *)
(***************************************************************************)

\* C27: a worker never holds more than one of the three counter locks: the
\* category lock is held only in the match arm, the progress lock only from
\* its acquisition to the return of the sink; and under fair scheduling
\* every item becomes Succeeded or Failed and batch_convert returns.
C27_DeadlockFree ==
    /\ [](\A w \in Workers :
            LET held == {c \in Counters : holder[c] = w}
            IN  /\ Cardinality(held) <= 1
                /\ pc[w] = "arm" => held = {Category(res[w])}
                /\ pc[w] = "sink" => held = {"progress"}
                /\ pc[w] \notin {"arm", "sink"} => held = {})
    /\ <>[](phase = "returned" /\ \A i \in Items : itemState[i] \in Terminal)

\* A batch of several files on several workers has returned, after the
\* notification of its last file.
C27_Witness ==
    /\ phase = "returned"
    /\ jobs > 1
    /\ Len(files) > 1
    /\ \E n \in 1..Len(delivered) : delivered[n][1] = Len(files)

(***************************************************************************)
(* Inputs with the same file stem                                          *)
(***************************************************************************)

\* C28: for one output directory and one format, two inputs with the same
\* file stem resolve to the same output path, whatever their directories
\* and extensions; the conversion processes of both are given -y and that
\* one path as the output file.
C28_SameStemSameOutput ==
    (op = "batch_convert" /\ run.pc \in {"pair", "returned"}) =>
        \A i, j \in 1..2 :
            arg.files[i].stem = arg.files[j].stem =>
                /\ build_output_path(arg.files[i], arg.output_dir, arg.format)
                     = build_output_path(arg.files[j], arg.output_dir, arg.format)
                /\ (run.argv[i] # << >> /\ run.argv[j] # << >>) =>
                      /\ run.argv[i][1] = <<"-y">>
                      /\ run.argv[i][Len(run.argv[i])] = run.argv[j][Len(run.argv[j])]
                      /\ run.argv[i][Len(run.argv[i])]
                           = build_output_path(arg.files[i], arg.output_dir,
                                               arg.format).path

\* Two different files with the same stem: both conversion processes were
\* started before either exited, were given the same output file, and the
\* batch returned (2, 0).
C28_Witness ==
    /\ op = "batch_convert"
    /\ run.pc = "returned"
    /\ arg.files[1] # arg.files[2]
    /\ arg.files[1].stem = arg.files[2].stem
    /\ Len(run.events) = 4
    /\ run.events[1][1] = "spawn"
    /\ run.events[2][1] = "spawn"
    /\ disk = <<run.argv[1][Len(run.argv[1])], run.argv[2][Len(run.argv[2])]>>
    /\ disk[1] = disk[2]
    /\ ret.val = <<2, 0>>

(***************************************************************************)
(* Output files are not inputs                                             *)
(***************************************************************************)

\* C29: no extension of an AudioFormat is a supported video extension, so
\* no file a conversion wrote into source_dir/audio_exports is among the
\* files a later find_video_files of the source directory returns, and all
\* runs on the same source directory find the same files.
C29_OutputsNeverCandidates ==
    op = "main twice" =>
        /\ \A format \in AudioFormat :
              ~is_supported_video_file([ext |-> Some(extension(format))])
        /\ \A k \in 1..Len(Calls) :
              /\ \A n \in 1..Len(Calls[k].val) : Calls[k].val[n] \notin arg.outputs
              /\ \A j \in 1..k : Calls[j].val = Calls[k].val

\* A second run on a tree in which the first run found videos and wrote
\* output files finds the same videos.
C29_Witness ==
    /\ op = "main twice"
    /\ Len(Calls) = 2
    /\ Calls[1].written > 0
    /\ Calls[2].err = "none"
    /\ Calls[2].val = Calls[1].val
    /\ Cardinality(arg.outputs) > Calls[2].written

(***************************************************************************)
(* The list of recent source directories                                   *)
(***************************************************************************)

\* C30: after every add_recent_source_dir the list has no duplicates, at
\* most 10 entries, and the added directory first; a directory that was in
\* the list is moved to the front and the others keep their order; an 11th
\* distinct directory drops the one added least recently (added: the
\* directories in the order they were added before the call, the saved list
\* from its end to its front; LastAdd: when a directory was last added).
C30_RecentList ==
    op = "add_recent_source_dir" =>
        \A k \in 1..Len(Adds) :
            LET c == Adds[k]
                Range(list) == {list[n] : n \in 1..Len(list)}
                NoDuplicates(list) ==
                    \A m, n \in 1..Len(list) : list[m] = list[n] => m = n
                added ==
                    [n \in 1..Len(arg.list) |-> arg.list[Len(arg.list) + 1 - n]]
                    \o [n \in 1..(k - 1) |-> Adds[n].dir]
                LastAdd(d) ==
                    CHOOSE n \in 1..Len(added) :
                        added[n] = d /\ \A m \in (n + 1)..Len(added) : added[m] # d
                others == SelectSeq(c.before, LAMBDA d : d # c.dir)
            IN  /\ c.before = (IF k = 1 THEN arg.list ELSE Adds[k - 1].after)
                /\ NoDuplicates(c.after)
                /\ Len(c.after) <= MaxRecent
                /\ c.after[1] = c.dir
                /\ c.dir \in Range(c.before) =>
                      /\ Tail(c.after) = others
                      /\ Range(c.after) = Range(c.before)
                /\ (c.dir \notin Range(c.before) /\ Len(c.before) < MaxRecent) =>
                      Tail(c.after) = c.before
                /\ (c.dir \notin Range(c.before) /\ Len(c.before) = MaxRecent) =>
                      /\ Tail(c.after) = SubSeq(c.before, 1, MaxRecent - 1)
                      /\ \A d \in Range(c.before) :
                            LastAdd(c.before[MaxRecent]) <= LastAdd(d)

\* A directory further down the list was added again and moved to the
\* front, and then an 11th distinct directory dropped the last one.
C30_Witness ==
    /\ op = "add_recent_source_dir"
    /\ Len(Adds) >= 2
    /\ \E j, k \in 1..Len(Adds) :
          /\ j < k
          /\ \E n \in 2..Len(Adds[j].before) : Adds[j].before[n] = Adds[j].dir
          /\ \A n \in 1..Len(Adds[k].before) : Adds[k].before[n] # Adds[k].dir
          /\ Len(Adds[k].before) = MaxRecent
          /\ \A n \in 1..Len(Adds[k].after) : Adds[k].after[n] # Adds[k].before[MaxRecent]

====
